---- MODULE Spec2Model ----
(***************************************************************************)
(* Model of the OpenAPI/Swagger parser of AT-AT                            *)
(*   core    : src/core/src/parser/openapi_parser.py                       *)
(*   project : src/project/core/src/parser/openapi_parser.py               *)
(*                                                                         *)
(* The decoded document is a graph of Python dict and list objects.  The   *)
(* resolver hands out and stores references to these objects, so the model *)
(* keeps them in a heap: a function from node identities to nodes.  A     *)
(* value is a scalar or a reference to a node:                             *)
(*   [none |-> TRUE]   Python None (absent key, JSON null)                 *)
(*   [b |-> TRUE]      a boolean                                           *)
(*   [i |-> 5]         an integer                                          *)
(*   [s |-> <<..>>]    a string, kept as its '/'-separated segments, so    *)
(*                     "#/definitions/A" is <<"#", "definitions", "A">>    *)
(*                     and "array" is <<"array">>                          *)
(*   [n |-> id]        a reference to heap node id                         *)
(* A node is a dict [d |-> <<[k |-> key, v |-> value], ...>>] (insertion   *)
(* ordered, as Python dicts are) or a list [l |-> <<value, ...>>].         *)
(* Documents are written as trees ([d |-> << <<key, tree>>, ...>>],        *)
(* [l |-> <<tree, ...>>], scalars as above) and loaded into the heap.      *)
(***************************************************************************)
EXTENDS Integers, Sequences, FiniteSets, TLC

\* Recursion limit of the interpreter (frames of __parse_ref).
MaxDepth == 6
\* Steps of the search loop of __find_key_in_dict before it is taken to hang.
MaxQueueSteps == 40
\* Nesting depth up to which a value is copied out of the heap.
MaxSnap == 12
\* Number of direct resolver / sanitizer calls in one run.
MaxCalls == 2

None == [none |-> TRUE]
Str(x) == [s |-> <<x>>]
Bool(x) == [b |-> x]
Num(x) == [i |-> x]
Node(i) == [n |-> i]

IsNone(v) == "none" \in DOMAIN v
IsStr(v) == "s" \in DOMAIN v
IsBool(v) == "b" \in DOMAIN v
IsNode(v) == "n" \in DOMAIN v
IsDict(h, v) == IsNode(v) /\ "d" \in DOMAIN h[v.n]
IsList(h, v) == IsNode(v) /\ "l" \in DOMAIN h[v.n]

\* Python truthiness: None, False, 0, "", {} and [] are falsy.
Truthy(h, v) ==
  IF IsNone(v) THEN FALSE
  ELSE IF IsBool(v) THEN v.b
  ELSE IF "i" \in DOMAIN v THEN v.i # 0
  ELSE IF IsStr(v) THEN v.s # <<"">>
  ELSE IF IsDict(h, v) THEN h[v.n].d # <<>>
  ELSE h[v.n].l # <<>>

\* Position of key in a dict's entries, 0 when absent.
Index(ents, key) ==
  IF \E i \in DOMAIN ents : ents[i].k = key
  THEN CHOOSE i \in DOMAIN ents : ents[i].k = key
  ELSE 0

\* key in dict
Has(h, id, key) == Index(h[id].d, key) # 0

\* dict.get(key)
Get(h, id, key) ==
  LET i == Index(h[id].d, key) IN IF i = 0 THEN None ELSE h[id].d[i].v

\* dict[key] = val
SetKey(h, id, key, val) ==
  LET ents == h[id].d
      i == Index(ents, key)
  IN [h EXCEPT ![id] =
        [d |-> IF i = 0 THEN Append(ents, [k |-> key, v |-> val])
                        ELSE [ents EXCEPT ![i] = [k |-> key, v |-> val]]]]

\* del dict[key]
DelKey(h, id, key) ==
  LET ents == h[id].d
      i == Index(ents, key)
  IN [h EXCEPT ![id] = [d |-> SubSeq(ents, 1, i - 1) \o SubSeq(ents, i + 1, Len(ents))]]

(***************************************************************************)
(* Loading a tree into the heap (the decoded document), and copying a      *)
(* value out of the heap (what a consumer sees when it reads or prints a   *)
(* schema).  The identity of a node is the path of keys that leads to it   *)
(* in the decoded document (list positions as "0", "1", ...); the parser   *)
(* creates no dict inside the document, it only rebinds keys to nodes that *)
(* exist.                                                                  *)
(***************************************************************************)
IsTree(t) == "d" \in DOMAIN t \/ "l" \in DOMAIN t

Position == <<"0", "1", "2", "3", "4", "5">>

\* The <<key, subtree>> pairs of a tree node.
Kids(t) ==
  IF "d" \in DOMAIN t THEN t.d
  ELSE IF "l" \in DOMAIN t THEN [i \in DOMAIN t.l |-> <<Position[i], t.l[i]>>]
  ELSE <<>>

RECURSIVE PathsOf(_)
PathsOf(t) ==
  {<<>>} \cup UNION {{<<Kids(t)[i][1]>> \o p : p \in PathsOf(Kids(t)[i][2])} :
                       i \in {j \in DOMAIN Kids(t) : IsTree(Kids(t)[j][2])}}

RECURSIVE TreeAt(_, _)
TreeAt(t, path) ==
  IF path = <<>> THEN t
  ELSE LET i == CHOOSE j \in DOMAIN Kids(t) : Kids(t)[j][1] = Head(path)
       IN TreeAt(Kids(t)[i][2], Tail(path))

\* The value that stands for subtree t at path: a reference when it is a node.
ValueOf(t, path) == IF IsTree(t) THEN Node(path) ELSE t

Load(doc) ==
  [p \in PathsOf(doc) |->
     LET t == TreeAt(doc, p) IN
     IF "d" \in DOMAIN t
     THEN [d |-> [i \in DOMAIN t.d |-> [k |-> t.d[i][1], v |-> ValueOf(t.d[i][2], Append(p, t.d[i][1]))]]]
     ELSE [l |-> [i \in DOMAIN t.l |-> ValueOf(t.l[i], Append(p, Position[i]))]]]

RECURSIVE Snapshot(_, _, _)
Snapshot(h, v, depth) ==
  IF ~IsNode(v) THEN v
  ELSE IF depth = 0 THEN [cut |-> TRUE]
  ELSE IF IsDict(h, v) THEN
    [d |-> [i \in DOMAIN h[v.n].d |->
              <<h[v.n].d[i].k, Snapshot(h, h[v.n].d[i].v, depth - 1)>>]]
  ELSE [l |-> [i \in DOMAIN h[v.n].l |-> Snapshot(h, h[v.n].l[i], depth - 1)]]

\* The document root (self.swagger_json_data).
Root == <<>>

(***************************************************************************)
(* Results of the operations: the heap after the call, the value returned  *)
(* and the exception raised ("" when the call returned normally).  "Hang"  *)
(* stands for a call that never returns.                                   *)
(***************************************************************************)
\* The element of a singleton: The({e(x) : x \in {v}}) is e with x naming the
\* value of v, the way a local variable names the result of one call.
The(S) == CHOOSE x \in S : TRUE

Ok(h, r) == [h |-> h, r |-> r, e |-> ""]
Err(h, e) == [h |-> h, r |-> None, e |-> e]

\* The values of a sequence of values that are dicts or lists.
Containers(vals) == SelectSeq(vals, IsNode)

(***************************************************************************)
(* __find_key_in_dict: the while loop over the deque.  A dict is scanned   *)
(* up to the target key: the entries before it are queued, `found` is set  *)
(* to the key's value and the break leaves the for loop only, so the while *)
(* loop goes on with the rest of the queue.                                *)
(***************************************************************************)
RECURSIVE find_loop(_, _, _, _, _)
find_loop(h, queue, target_key, found, steps) ==
  IF queue = <<>> THEN [found |-> found, hang |-> FALSE]
  ELSE IF steps = 0 THEN [found |-> found, hang |-> TRUE]
  ELSE
    LET cur == Head(queue)
        rest == Tail(queue)
    IN IF IsDict(h, cur) THEN
         LET ents == h[cur.n].d
             hit == Index(ents, target_key)
             upto == IF hit = 0 THEN Len(ents) ELSE hit - 1
             before == [i \in 1..upto |-> ents[i].v]
         IN find_loop(h, rest \o Containers(before), target_key,
                      IF hit = 0 THEN found ELSE ents[hit].v, steps - 1)
       ELSE IF IsList(h, cur) THEN
         find_loop(h, rest \o Containers(h[cur.n].l), target_key, found, steps - 1)
       ELSE find_loop(h, rest, target_key, found, steps - 1)

\* __find_key_in_dict reading queue[0] without popleft: the queue of a search
\* that started never empties.
find_key_in_dict_unconsumed(h, data_dict, target_key) ==
  IF IsNone(data_dict) THEN [found |-> None, hang |-> FALSE]
  ELSE [found |-> None, hang |-> TRUE]

find_key_in_dict(h, data_dict, target_key) ==
  IF IsNone(data_dict) THEN [found |-> None, hang |-> FALSE]
  ELSE find_loop(h, <<data_dict>>, target_key, None, MaxQueueSteps)

\* self.schema_useless_keys
schema_useless_keys == <<"xml">>

\* "Delete useless keys" loop of __parse_ref: the keys of the resolved node itself.
RECURSIVE delete_useless_top(_, _, _)
delete_useless_top(h, id, i) ==
  IF i > Len(schema_useless_keys) THEN h
  ELSE delete_useless_top(
         IF Has(h, id, schema_useless_keys[i]) THEN DelKey(h, id, schema_useless_keys[i]) ELSE h,
         id, i + 1)

(***************************************************************************)
(* The lookup of __parse_ref: ref_path.split("/")[1:], the container       *)
(* self.swagger_json_data[ref_parts[0]], then the schema by its name,      *)
(* directly in the container or under ref_parts[1].                        *)
(***************************************************************************)
lookup_ref(h, ref_path) ==
  IF ~IsStr(ref_path) THEN Err(h, "AttributeError")
  ELSE
    LET ref_parts == Tail(ref_path.s) IN
    IF ref_parts = <<>> THEN Err(h, "IndexError")
    ELSE
      LET schema_name == ref_parts[Len(ref_parts)]
          schema_location == Get(h, Root, ref_parts[1])
      IN IF ~Has(h, Root, ref_parts[1]) THEN Err(h, "KeyError")
         ELSE IF ~IsDict(h, schema_location) THEN Err(h, "AttributeError")
         ELSE IF Truthy(h, Get(h, schema_location.n, schema_name))
           THEN Ok(h, Get(h, schema_location.n, schema_name))
         ELSE IF Len(ref_parts) < 2 THEN Err(h, "IndexError")
         ELSE IF ~Has(h, schema_location.n, ref_parts[2]) THEN Err(h, "KeyError")
         ELSE LET sub == Get(h, schema_location.n, ref_parts[2]) IN
              IF ~IsDict(h, sub) THEN Err(h, "TypeError")
              ELSE IF ~Has(h, sub.n, schema_name) THEN Err(h, "KeyError")
              ELSE Ok(h, Get(h, sub.n, schema_name))

(***************************************************************************)
(* __parse_ref.  depth counts the free frames: a call with none left       *)
(* raises RecursionError.  The dicts are the document's own objects: the   *)
(* deletions and the assignments change the heap, and the value returned   *)
(* is a reference into it.                                                 *)
(***************************************************************************)
RECURSIVE parse_ref(_, _, _)
RECURSIVE parse_ref_properties(_, _, _, _)

\* for k, v in properties.items(): the entries from position i on.
parse_ref_properties(h, properties, i, depth) ==
  IF i > Len(h[properties].d) THEN Ok(h, None)
  ELSE
    LET k == h[properties].d[i].k
        v == h[properties].d[i].v
    IN IF ~IsDict(h, v) THEN Err(h, "AttributeError")
       ELSE IF Truthy(h, Get(h, v.n, "$ref")) THEN
         The({IF item.e # "" THEN item
              ELSE parse_ref_properties(SetKey(item.h, properties, k, item.r),
                                        properties, i + 1, depth) :
              item \in {parse_ref(h, Get(h, v.n, "$ref"), depth - 1)}})
       ELSE IF Get(h, v.n, "type") = Str("array") THEN
         IF ~Has(h, v.n, "items") THEN Err(h, "KeyError")
         ELSE IF ~IsDict(h, Get(h, v.n, "items")) THEN Err(h, "AttributeError")
         ELSE IF Truthy(h, Get(h, Get(h, v.n, "items").n, "$ref")) THEN
           The({IF item.e # "" THEN item
                ELSE parse_ref_properties(SetKey(item.h, properties, k, item.r),
                                          properties, i + 1, depth) :
                item \in {parse_ref(h, Get(h, Get(h, v.n, "items").n, "$ref"), depth - 1)}})
         ELSE parse_ref_properties(h, properties, i + 1, depth)
       ELSE parse_ref_properties(h, properties, i + 1, depth)

\* The tail of the branch without 'properties': an array schema gets its
\* 'items' replaced by the resolution of the pointer found in it.
parse_ref_array(h, schema, depth) ==
  IF Get(h, schema.n, "type") = Str("array") THEN
    The({IF temp_ref.hang THEN Err(h, "Hang")
         ELSE IF Truthy(h, temp_ref.found) THEN
           The({IF item.e # "" THEN item
                ELSE Ok(SetKey(item.h, schema.n, "items", item.r), schema) :
                item \in {parse_ref(h, temp_ref.found, depth - 1)}})
         ELSE Ok(h, schema) :
         temp_ref \in {find_key_in_dict(h, schema, "$ref")}})
  ELSE Ok(h, schema)

\* __parse_ref from "Delete useless keys" on: schema is the node the lookup
\* found, h1 the heap after the deletions.
parse_ref_schema(h1, schema, depth) ==
  LET properties == Get(h1, schema.n, "properties") IN
  IF IsNone(properties) THEN
    The({IF any_ref.hang THEN Err(h1, "Hang")
         ELSE IF Truthy(h1, any_ref.found) /\ Get(h1, schema.n, "type") # Str("array") THEN
           The({IF inner.e # "" THEN inner
                ELSE parse_ref_array(inner.h, inner.r, depth) :
                inner \in {parse_ref(h1, any_ref.found, depth - 1)}})
         ELSE parse_ref_array(h1, schema, depth) :
         any_ref \in {find_key_in_dict(h1, schema, "$ref")}})
  ELSE IF ~IsDict(h1, properties) THEN Err(h1, "AttributeError")
  ELSE
    The({IF done.e # "" THEN done
         ELSE Ok(SetKey(done.h, schema.n, "properties", properties), schema) :
         done \in {parse_ref_properties(h1, properties.n, 1, depth)}})

parse_ref(h, ref_path, depth) ==
  IF depth <= 0 THEN Err(h, "RecursionError")
  ELSE
    The({IF found.e # "" THEN found
         ELSE IF ~IsDict(h, found.r) THEN Err(h, "AttributeError")
         ELSE parse_ref_schema(delete_useless_top(h, found.r.n, 1), found.r, depth) :
         found \in {lookup_ref(h, ref_path)}})

(***************************************************************************)
(* The documents.  A document is drawn from a catalogue of schema          *)
(* containers and a catalogue of 'paths' mappings; style is the place of   *)
(* the schema container: "definitions" (Swagger 2.0, pointers              *)
(* "#/definitions/<name>") or "components" (OpenAPI 3, pointers            *)
(* "#/components/schemas/<name>").                                         *)
(***************************************************************************)
Obj(ents) == [d |-> ents]
Lst(items) == [l |-> items]

Styles == {"definitions", "components"}

Pointer(style, name) ==
  [s |-> IF style = "definitions" THEN <<"#", "definitions", name>>
                                  ELSE <<"#", "components", "schemas", name>>]

RefTo(style, name) == Obj(<< <<"$ref", Pointer(style, name)>> >>)

SchemaNames == {"A", "B", "C"}
PointerNames == SchemaNames \cup {"Missing"}

\* Nested inline objects, arrays of pointers and nested 'xml' markers.
DefsNested(st) == Obj(<<
  <<"A", Obj(<< <<"type", Str("object")>>,
                <<"xml", Obj(<< <<"name", Str("a")>> >>)>>,
                <<"properties", Obj(<<
                    <<"x", RefTo(st, "B")>>,
                    <<"y", Obj(<< <<"type", Str("array")>>, <<"items", RefTo(st, "C")>> >>)>>,
                    <<"z", Obj(<< <<"type", Str("object")>>,
                                  <<"properties", Obj(<< <<"w", RefTo(st, "C")>> >>)>> >>)>> >>)>> >>)>>,
  <<"B", Obj(<< <<"type", Str("string")>>, <<"xml", Obj(<< <<"name", Str("b")>> >>)>> >>)>>,
  <<"C", Obj(<< <<"type", Str("object")>>,
                <<"properties", Obj(<<
                    <<"name", Obj(<< <<"type", Str("string")>>,
                                     <<"xml", Obj(<< <<"attribute", Bool(TRUE)>> >>)>> >>)>> >>)>> >>)>> >>)

\* An array schema whose item schema keeps a pointer in a nested inline object.
DefsArrayDeep(st) == Obj(<<
  <<"A", Obj(<< <<"type", Str("array")>>, <<"items", RefTo(st, "B")>> >>)>>,
  <<"B", Obj(<< <<"type", Str("object")>>,
                <<"properties", Obj(<<
                    <<"p", Obj(<< <<"type", Str("object")>>,
                                  <<"properties", Obj(<< <<"q", RefTo(st, "C")>> >>)>> >>)>> >>)>> >>)>>,
  <<"C", Obj(<< <<"type", Str("string")>> >>)>> >>)

\* Pointers only where the resolver looks for them.
DefsPlain(st) == Obj(<<
  <<"A", Obj(<< <<"type", Str("object")>>,
                <<"properties", Obj(<<
                    <<"x", RefTo(st, "B")>>,
                    <<"n", Obj(<< <<"type", Str("integer")>> >>)>> >>)>> >>)>>,
  <<"B", Obj(<< <<"type", Str("array")>>, <<"items", RefTo(st, "C")>> >>)>>,
  <<"C", Obj(<< <<"type", Str("integer")>>, <<"format", Str("int64")>> >>)>> >>)

\* Pointers that reach themselves.
DefsCyclic(st) == Obj(<<
  <<"A", Obj(<< <<"type", Str("object")>>,
                <<"properties", Obj(<< <<"next", RefTo(st, "A")>> >>)>> >>)>>,
  <<"B", Obj(<< <<"type", Str("object")>>,
                <<"properties", Obj(<< <<"c", RefTo(st, "C")>> >>)>> >>)>>,
  <<"C", Obj(<< <<"properties", Obj(<< <<"b", RefTo(st, "B")>> >>)>> >>)>> >>)

\* Schemas without 'properties': a composition and an enumeration without 'type'.
DefsAllOf(st) == Obj(<<
  <<"A", Obj(<< <<"allOf", Lst(<<RefTo(st, "B"), RefTo(st, "C")>>)>> >>)>>,
  <<"B", Obj(<< <<"type", Str("object")>>,
                <<"properties", Obj(<< <<"k", Obj(<< <<"type", Str("string")>> >>)>> >>)>> >>)>>,
  <<"C", Obj(<< <<"enum", Lst(<<Str("on"), Str("off")>>)>> >>)>> >>)

\* A cycle of pointers through a nested inline object, which the resolver
\* does not follow.
DefsLoop(st) == Obj(<<
  <<"A", Obj(<< <<"properties", Obj(<< <<"x", RefTo(st, "B")>> >>)>> >>)>>,
  <<"B", Obj(<< <<"type", Str("array")>>, <<"items", RefTo(st, "C")>> >>)>>,
  <<"C", Obj(<< <<"properties", Obj(<<
                    <<"p", Obj(<< <<"type", Str("object")>>,
                                  <<"properties", Obj(<< <<"q", RefTo(st, "A")>> >>)>> >>)>> >>)>> >>)>> >>)

DefSets(st) ==
  {DefsNested(st), DefsArrayDeep(st), DefsPlain(st), DefsCyclic(st), DefsAllOf(st), DefsLoop(st)}

\* The schema container at its place in the document.
Container(st, defs) ==
  IF st = "definitions" THEN <<"definitions", defs>>
  ELSE <<"components", Obj(<< <<"schemas", defs>> >>)>>

(***************************************************************************)
(* Operations of the core variant (pointers are left in the document).     *)
(***************************************************************************)
ParamId ==
  Obj(<< <<"name", Str("id")>>, <<"in", Str("path")>>, <<"required", Bool(TRUE)>>,
         <<"type", Str("integer")>> >>)

\* The scenario of the specification: one parameter, one response with a pointer.
OpGet(st) == Obj(<<
  <<"parameters", Lst(<<ParamId>>)>>,
  <<"responses", Obj(<< <<"200", Obj(<< <<"schema", RefTo(st, "A")>> >>)>> >>)>> >>)

\* A deprecated operation whose request body has no pointer.
OpDeprecated == Obj(<<
  <<"deprecated", Bool(TRUE)>>,
  <<"requestBody", Obj(<< <<"content", Obj(<< <<"schema", Obj(<< <<"type", Str("object")>> >>)>> >>)>> >>)>> >>)

\* Empty parameter list and empty responses mapping.
OpEmpty == Obj(<< <<"parameters", Lst(<<>>)>>, <<"responses", Obj(<<>>)>> >>)

\* Neither parameters, nor responses, nor a request body.
OpBare == Obj(<< <<"deprecated", Bool(FALSE)>> >>)

\* A request body without any pointer.
OpBodyNoRef == Obj(<<
  <<"requestBody", Obj(<< <<"required", Bool(TRUE)>>,
                          <<"content", Obj(<< <<"schema", Obj(<< <<"type", Str("object")>> >>)>> >>)>> >>)>>,
  <<"responses", Obj(<< <<"default", Obj(<< <<"schema", Obj(<< <<"type", Str("string")>> >>)>> >>)>> >>)>> >>)

\* A request body whose pointer sits in a list of alternatives.
OpBodyRef(st) == Obj(<<
  <<"requestBody", Obj(<< <<"content", Obj(<< <<"schema",
        Obj(<< <<"oneOf", Lst(<<RefTo(st, "B")>>)>> >>)>> >>)>> >>)>> >>)

\* Array parameters: inline items with a type, schema.items with a pointer.
OpArrays(st) == Obj(<<
  <<"parameters", Lst(<<
      Obj(<< <<"name", Str("tags")>>, <<"in", Str("query")>>, <<"type", Str("array")>>,
             <<"items", Obj(<< <<"type", Str("string")>>,
                               <<"enum", Lst(<<Str("a"), Str("b")>>)>> >>)>> >>),
      Obj(<< <<"name", Str("refs")>>, <<"in", Str("query")>>,
             <<"schema", Obj(<< <<"type", Str("array")>>, <<"items", RefTo(st, "C")>> >>)>> >>) >>)>> >>)

\* An array parameter whose items are declared nowhere.
OpArrayNoItems == Obj(<<
  <<"parameters", Lst(<<
      Obj(<< <<"name", Str("ids")>>, <<"in", Str("query")>>, <<"type", Str("array")>>,
             <<"schema", Obj(<< <<"type", Str("array")>> >>)>> >>) >>)>> >>)

\* Constraints on the parameter and in its schema; a parameter given by pointer.
OpConstraints(st) == Obj(<<
  <<"parameters", Lst(<<
      Obj(<< <<"name", Str("code")>>, <<"in", Str("query")>>, <<"pattern", Str("p1")>>,
             <<"schema", Obj(<< <<"type", Str("string")>>, <<"pattern", Str("p2")>>,
                                <<"format", Str("uuid")>>, <<"maxLength", Num(8)>> >>)>> >>),
      Obj(<< <<"name", Str("body")>>, <<"in", Str("body")>>, <<"schema", RefTo(st, "B")>> >>) >>)>> >>)

\* A response whose pointer has no target.
OpMissingRef(st) == Obj(<<
  <<"responses", Obj(<< <<"404", Obj(<< <<"schema", RefTo(st, "Missing")>> >>)>> >>)>> >>)

\* An array response.
OpArrayResponse(st) == Obj(<<
  <<"responses", Obj(<<
      <<"200", Obj(<< <<"schema", Obj(<< <<"type", Str("array")>>, <<"items", RefTo(st, "C")>> >>)>> >>)>>,
      <<"204", Obj(<<>>)>> >>)>> >>)

\* A response whose headers, declared before its schema, have a 'type' too.
OpHeaders(st) == Obj(<<
  <<"responses", Obj(<<
      <<"200", Obj(<<
          <<"headers", Obj(<< <<"X-Total", Obj(<< <<"type", Str("integer")>> >>)>> >>)>>,
          <<"schema", Obj(<< <<"type", Str("array")>>, <<"items", RefTo(st, "C")>> >>)>> >>)>> >>)>> >>)

CorePathSets(st) == {
  Obj(<< <<"/pets/{id}", Obj(<< <<"get", OpGet(st)>>, <<"post", OpDeprecated>> >>)>> >>),
  Obj(<< <<"/a", Obj(<< <<"get", OpEmpty>> >>)>>,
         <<"/b", Obj(<< <<"post", OpBodyNoRef>>, <<"put", OpBare>> >>)>> >>),
  Obj(<<>>),
  Obj(<< <<"/q", Obj(<< <<"get", OpArrays(st)>>, <<"put", OpBodyRef(st)>> >>)>>,
         <<"/r", Obj(<< <<"get", OpArrayNoItems>>, <<"head", OpBare>> >>)>> >>),
  Obj(<< <<"/c", Obj(<< <<"get", OpConstraints(st)>>, <<"patch", OpArrayResponse(st)>>,
                        <<"delete", OpMissingRef(st)>> >>)>> >>),
  Obj(<< <<"/v", Obj(<< <<"options", OpBare>>, <<"connect", OpBare>>, <<"trace", OpBare>> >>)>> >>),
  Obj(<< <<"/h", Obj(<< <<"get", OpHeaders(st)>> >>)>> >>) }

(***************************************************************************)
(* Operations of the project variant.  There the document handed to        *)
(* __parse_endpoints is ResolvingParser(...).specification: pointers have  *)
(* been replaced by their targets, so these operations hold none.          *)
(***************************************************************************)
ItemObject ==
  Obj(<< <<"type", Str("object")>>,
         <<"xml", Obj(<< <<"name", Str("item")>> >>)>>,
         <<"properties", Obj(<<
             <<"name", Obj(<< <<"type", Str("string")>>,
                              <<"xml", Obj(<< <<"attribute", Bool(TRUE)>> >>)>> >>)>> >>)>> >>)

\* A schema parameter with constraints and markers, and an array of objects.
POpSchemas == Obj(<<
  <<"parameters", Lst(<<
      Obj(<< <<"name", Str("code")>>, <<"in", Str("query")>>, <<"pattern", Str("p1")>>,
             <<"schema", Obj(<< <<"type", Str("string")>>, <<"pattern", Str("p2")>>,
                                <<"format", Str("uuid")>>, <<"maxLength", Num(8)>>,
                                <<"xml", Obj(<< <<"name", Str("c")>> >>)>>,
                                <<"example", Obj(<< <<"xml", Str("x")>> >>)>> >>)>> >>),
      Obj(<< <<"name", Str("objs")>>, <<"in", Str("query")>>,
             <<"schema", Obj(<< <<"type", Str("array")>>, <<"items", ItemObject>> >>)>> >>) >>)>> >>)

\* Array parameters with inline items of a primitive type.
POpArrayInline == Obj(<<
  <<"parameters", Lst(<<
      ParamId,
      Obj(<< <<"name", Str("tags")>>, <<"in", Str("query")>>, <<"type", Str("array")>>,
             <<"items", Obj(<< <<"type", Str("string")>>,
                               <<"xml", Obj(<< <<"name", Str("tag")>> >>)>> >>)>> >>) >>)>> >>)

\* An array parameter whose item descriptor (the target of a pointer) has no 'type'.
POpArrayUntyped == Obj(<<
  <<"parameters", Lst(<<
      Obj(<< <<"name", Str("refs")>>, <<"in", Str("query")>>,
             <<"schema", Obj(<< <<"type", Str("array")>>,
                                <<"items", Obj(<< <<"properties", Obj(<<
                                    <<"k", Obj(<< <<"type", Str("string")>> >>)>> >>)>> >>)>> >>)>> >>) >>)>> >>)

ProjectPathSets == {
  Obj(<< <<"/pets/{id}", Obj(<< <<"get", POpArrayInline>>, <<"post", OpDeprecated>> >>)>> >>),
  Obj(<< <<"/a", Obj(<< <<"get", OpEmpty>> >>)>>,
         <<"/b", Obj(<< <<"post", OpBodyNoRef>>, <<"put", OpBare>> >>)>> >>),
  Obj(<<>>),
  Obj(<< <<"/s", Obj(<< <<"get", POpSchemas>>, <<"put", OpBare>> >>)>>,
         <<"/r", Obj(<< <<"get", OpArrayNoItems>>, <<"head", OpBare>> >>)>> >>),
  Obj(<< <<"/u", Obj(<< <<"get", POpArrayInline>>, <<"post", POpArrayUntyped>> >>)>> >>),
  Obj(<< <<"/v", Obj(<< <<"options", OpBare>>, <<"connect", OpBare>> >>)>> >>) }

\* The decoded documents; a document may lack 'paths'.
Documents ==
  UNION {{Obj(<<Container(st, defs)>>)} \cup
         {Obj(<<Container(st, defs), <<"paths", paths>> >>) :
            paths \in CorePathSets(st) \cup ProjectPathSets} :
           <<st, defs>> \in {<<st, defs>> \in Styles \X UNION {DefSets(st) : st \in Styles} :
                               defs \in DefSets(st)}}

(***************************************************************************)
(* The normalizers.  The records they build hold values (references into   *)
(* the document included); the fields summary, description, consumes,      *)
(* produces, maximum and mimimum are copied from the document as they are  *)
(* and are left out.  The model classes check their required fields:       *)
(* name and location are strings, a type is a string or a dict.            *)
(***************************************************************************)
IsStrOrDict(h, v) == IsStr(v) \/ IsDict(h, v)

\* dict.get(key, False)
GetOrFalse(h, id, key) == IF Has(h, id, key) THEN Get(h, id, key) ELSE Bool(FALSE)

\* Core: param.get(key), else param["schema"].get(key) when the schema is truthy.
core_constraint(h, param, key) ==
  LET own == Get(h, param.n, key)
      schema == Get(h, param.n, "schema")
  IN IF IsNone(own) /\ Truthy(h, schema) THEN Get(h, schema.n, key) ELSE own

\* Core __parse_parameters, lines 255-284: the constraints and the record.
core_parameter_record(h, param, param_type, array_item) ==
  IF Truthy(h, Get(h, param.n, "schema")) /\ ~IsDict(h, Get(h, param.n, "schema"))
    THEN Err(h, "AttributeError")
  ELSE IF ~IsStr(Get(h, param.n, "name")) \/ ~IsStr(Get(h, param.n, "in"))
          \/ ~IsStrOrDict(h, param_type)
    THEN Err(h, "ValidationError")
  ELSE Ok(h, [name |-> Get(h, param.n, "name"),
              location |-> Get(h, param.n, "in"),
              type |-> param_type,
              items |-> array_item,
              schema_obj |-> None,
              required |-> GetOrFalse(h, param.n, "required"),
              pattern |-> core_constraint(h, param, "pattern"),
              format |-> core_constraint(h, param, "format"),
              max_len |-> core_constraint(h, param, "maxLength")])

\* Core __parse_parameters, lines 245-253: the ArrayItem of descriptor
\* arr_items, t the result of reading or resolving its type.
core_array_item(t, param, param_type, arr_items) ==
  IF t.e # "" THEN t
  ELSE IF ~IsStrOrDict(t.h, t.r) THEN Err(t.h, "ValidationError")
  ELSE core_parameter_record(t.h, param, param_type,
         [type |-> t.r,
          enum_items |-> Get(t.h, arr_items.n, "enum"),
          default |-> Get(t.h, arr_items.n, "default")])

\* Core __parse_parameters, lines 235-253: the item descriptor of an array.
core_parameter_items(h, param, param_type) ==
  IF param_type # Str("array") THEN core_parameter_record(h, param, param_type, None)
  ELSE
    LET inline == Get(h, param.n, "items")
        schema == Get(h, param.n, "schema")
    IN IF IsNone(inline) /\ ~Has(h, param.n, "schema") THEN Err(h, "KeyError")
       ELSE IF IsNone(inline) /\ ~IsDict(h, schema) THEN Err(h, "AttributeError")
       ELSE
         LET arr_items == IF IsNone(inline) THEN Get(h, schema.n, "items") ELSE inline IN
         IF IsNone(arr_items) THEN Err(h, "AssertionError")
         ELSE IF ~IsDict(h, arr_items) THEN Err(h, "AttributeError")
         ELSE core_array_item(
                IF IsNone(Get(h, arr_items.n, "type"))
                  THEN parse_ref(h, Get(h, arr_items.n, "$ref"), MaxDepth)
                  ELSE Ok(h, Get(h, arr_items.n, "type")),
                param, param_type, arr_items)

\* Core __parse_parameters, lines 232-233: the type resolved from the pointer.
core_parameter_typed(t, param) ==
  IF t.e # "" THEN t ELSE core_parameter_items(t.h, param, t.r)

\* Core __parse_parameters, lines 224-233: the type of the parameter.
core_parameter_type(h, param) ==
  LET own_type == Get(h, param.n, "type")
      schema == Get(h, param.n, "schema")
  IN IF ~IsNone(own_type) \/ (IsDict(h, schema) /\ ~IsNone(Get(h, schema.n, "type")))
       THEN core_parameter_items(h, param,
              IF ~IsNone(own_type) THEN own_type ELSE Get(h, schema.n, "type"))
     ELSE IF ~IsNone(schema) /\ ~IsDict(h, schema) THEN Err(h, "AttributeError")
     ELSE IF ~Has(h, param.n, "schema") THEN Err(h, "KeyError")
     ELSE IF IsNone(schema) THEN Err(h, "TypeError")
     ELSE IF ~Has(h, schema.n, "$ref") THEN Err(h, "KeyError")
     ELSE core_parameter_typed(parse_ref(h, Get(h, schema.n, "$ref"), MaxDepth), param)

\* Core __parse_parameters, lines 218-222: a parameter given by a pointer alone.
core_parameter(h, param) ==
  IF ~IsDict(h, param) THEN Err(h, "AttributeError")
  ELSE
    The({IF target.e # "" THEN target ELSE core_parameter_type(target.h, target.r) :
         target \in {IF IsNone(Get(h, param.n, "schema")) /\ Truthy(h, Get(h, param.n, "$ref"))
                       THEN parse_ref(h, Get(h, param.n, "$ref"), MaxDepth)
                       ELSE Ok(h, param)}})

\* Core __parse_parameters: the loop over params_data from position i on.
\* When an exception leaves the loop, r is parsed_params as it was then.
RECURSIVE core_parse_parameters(_, _, _, _)
core_parse_parameters(h, params_data, i, parsed_params) ==
  IF ~IsList(h, params_data) THEN [h |-> h, r |-> parsed_params, e |-> "AttributeError"]
  ELSE IF i > Len(h[params_data.n].l) THEN Ok(h, parsed_params)
  ELSE The({IF one.e # "" THEN [one EXCEPT !.r = parsed_params]
            ELSE core_parse_parameters(one.h, params_data, i + 1, Append(parsed_params, one.r)) :
            one \in {core_parameter(h, h[params_data.n].l[i])}})

\* __parse_responses, lines 302-314: the Response, parsed_ref the result of
\* the resolutions.
response_record(parsed_ref, http_code, response_data, out_type) ==
  IF parsed_ref.e # "" THEN parsed_ref
  ELSE IF ~IsDict(parsed_ref.h, response_data) THEN Err(parsed_ref.h, "AttributeError")
  ELSE Ok(parsed_ref.h,
          [code |-> http_code,
           return_schema |->
             [type |-> IF out_type = Str("array") THEN out_type ELSE parsed_ref.r,
              items |-> IF out_type = Str("array") THEN parsed_ref.r ELSE None]])

\* __parse_responses, lines 299-301: a pointer left in the resolved schema is
\* resolved in its place; first is the result of the first resolution.
response_second(first, http_code, response_data, out_type) ==
  IF first.e # "" THEN first
  ELSE
    The({IF any_ref.hang THEN Err(first.h, "Hang")
         ELSE response_record(IF Truthy(first.h, any_ref.found)
                                THEN parse_ref(first.h, any_ref.found, MaxDepth)
                                ELSE first,
                              http_code, response_data, out_type.found) :
         any_ref \in {find_key_in_dict(first.h, first.r, "$ref")}})

\* __parse_responses: one status-code entry.
parse_response(h, http_code, response_data) ==
  The({IF ref.hang \/ out_type.hang THEN Err(h, "Hang")
       ELSE response_second(IF ~IsNone(ref.found) THEN parse_ref(h, ref.found, MaxDepth)
                            ELSE Ok(h, None),
                            http_code, response_data, out_type) :
       ref \in {find_key_in_dict(h, response_data, "$ref")},
       out_type \in {find_key_in_dict(h, response_data, "type")}})

\* __parse_responses: the loop over responses_data.items() from position i on.
RECURSIVE parse_responses(_, _, _, _)
parse_responses(h, responses_data, i, parsed_responses) ==
  IF ~IsDict(h, responses_data) THEN Err(h, "AttributeError")
  ELSE IF i > Len(h[responses_data.n].d) THEN Ok(h, parsed_responses)
  ELSE The({IF one.e # "" THEN one
            ELSE parse_responses(one.h, responses_data, i + 1, Append(parsed_responses, one.r)) :
            one \in {parse_response(h, h[responses_data.n].d[i].k, h[responses_data.n].d[i].v)}})

\* __parse_request_body, lines 321-329: the RequestBody for the pointer found.
request_body_record(h, request_body_data, data_schema) ==
  IF ~IsDict(h, request_body_data) THEN Err(h, "AttributeError")
  ELSE The({IF schema.e # "" THEN schema
            ELSE Ok(schema.h, [data_schema |-> schema.r,
                               required |-> GetOrFalse(schema.h, request_body_data.n, "required")]) :
            schema \in {parse_ref(h, data_schema, MaxDepth)}})

\* __parse_request_body without its assertion: a body without pointer gives
\* no RequestBody.
parse_request_body_unasserted(h, request_body_data) ==
  The({IF data_schema.hang THEN Err(h, "Hang")
       ELSE IF IsNone(data_schema.found) THEN Ok(h, None)
       ELSE request_body_record(h, request_body_data, data_schema.found) :
       data_schema \in {find_key_in_dict(h, request_body_data, "$ref")}})

\* __parse_request_body
parse_request_body(h, request_body_data) ==
  The({IF data_schema.hang THEN Err(h, "Hang")
       ELSE IF IsNone(data_schema.found) THEN Err(h, "AssertionError")
       ELSE request_body_record(h, request_body_data, data_schema.found) :
       data_schema \in {find_key_in_dict(h, request_body_data, "$ref")}})

\* The names of the Operation enumeration.
Operation == {"get", "put", "post", "delete", "options", "head", "patch", "trace"}

\* A list as an optional field holds it (the field is None or a list).
Listed(items) == [list |-> items]
InList(res) == [res EXCEPT !.r = Listed(res.r)]

\* An exception leaves __parse_method; built is the number of Parameter
\* records that had been built for the operation.
Raised(h, e, built) == [h |-> h, r |-> [built |-> built], e |-> e]
Built(params) == IF IsNone(params) THEN 0 ELSE Len(params.list)

\* __parse_method without the test of 'deprecated': no operation is skipped.
is_deprecated_never(h, method_data) == FALSE

\* "Skip deprecated methods": method_data.get("deprecated", False)
is_deprecated(h, method_data) == Truthy(h, GetOrFalse(h, method_data.n, "deprecated"))

\* Core __parse_method, lines 201-212: the Method.
core_method_record(method, method_url, params, responses, request_body) ==
  IF request_body.e # "" THEN Raised(request_body.h, request_body.e, Built(params.r))
  ELSE IF method \notin Operation THEN Raised(request_body.h, "KeyError", Built(params.r))
  ELSE Ok(request_body.h,
          [url |-> method_url,
           type |-> method,
           parameters |-> IF IsNone(params.r) \/ Len(params.r.list) < 0
                            THEN None ELSE params.r,
           responses |-> IF IsNone(responses.r) \/ Len(responses.r.list) < 0
                           THEN None ELSE responses.r,
           request_body |-> request_body.r])

\* Core __parse_method, lines 196-200: the request body.
core_method_body(method, method_request_body, method_url, params, responses) ==
  IF responses.e # "" THEN Raised(responses.h, responses.e, Built(params.r))
  ELSE core_method_record(method, method_url, params, responses,
         IF ~IsNone(method_request_body)
           THEN parse_request_body(responses.h, method_request_body)
           ELSE Ok(responses.h, None))

\* Core __parse_method, lines 191-195: the responses.
core_method_responses(method, method_responses, method_request_body, method_url, params) ==
  IF params.e # "" THEN Raised(params.h, params.e, Built(params.r))
  ELSE core_method_body(method, method_request_body, method_url, params,
         IF ~IsNone(method_responses)
           THEN InList(parse_responses(params.h, method_responses, 1, <<>>))
           ELSE Ok(params.h, None))

\* Core __parse_method: r is None for a deprecated operation, else the Method.
core_parse_method(h, method, method_data, method_url) ==
  IF ~IsDict(h, method_data) THEN Raised(h, "AttributeError", 0)
  ELSE IF is_deprecated(h, method_data) THEN Ok(h, None)
  ELSE core_method_responses(method, Get(h, method_data.n, "responses"),
         Get(h, method_data.n, "requestBody"), method_url,
         IF ~IsNone(Get(h, method_data.n, "parameters"))
           THEN InList(core_parse_parameters(h, Get(h, method_data.n, "parameters"), 1, <<>>))
           ELSE Ok(h, None))

(***************************************************************************)
(* The project variant: __prepare_schema and its __parse_parameters.       *)
(* A schema rebuilt by delete_useless_keys is a new structure outside the  *)
(* document: it is held as [tree |-> ...].                                 *)
(***************************************************************************)
\* set(self.schema_useless_keys)
keys_set == {schema_useless_keys[i] : i \in DOMAIN schema_useless_keys}

\* The position-preserving restriction of a sequence to the indices in keep.
RECURSIVE Filter(_, _, _)
Filter(seq, keep, i) ==
  IF i > Len(seq) THEN <<>>
  ELSE (IF i \in keep THEN <<seq[i]>> ELSE <<>>) \o Filter(seq, keep, i + 1)

\* delete_useless_keys of __prepare_schema
RECURSIVE delete_useless_keys(_, _, _)
delete_useless_keys(h, data, depth) ==
  IF ~IsNode(data) THEN data
  ELSE IF depth = 0 THEN [cut |-> TRUE]
  ELSE IF IsDict(h, data) THEN
    LET ents == h[data.n].d
        res == [i \in DOMAIN ents |-> <<ents[i].k, delete_useless_keys(h, ents[i].v, depth - 1)>>]
    IN [d |-> Filter(res, {i \in DOMAIN ents : ents[i].k \notin keys_set}, 1)]
  ELSE [l |-> [i \in DOMAIN h[data.n].l |-> delete_useless_keys(h, h[data.n].l[i], depth - 1)]]

\* "for key in additional_keys: if key in schema_data: del schema_data[key]"
RECURSIVE delete_keys(_, _, _, _)
delete_keys(h, id, keys, i) ==
  IF i > Len(keys) THEN h
  ELSE delete_keys(IF Has(h, id, keys[i]) THEN DelKey(h, id, keys[i]) ELSE h, id, keys, i + 1)

\* __prepare_schema
prepare_schema(h, schema_data, delete_type, additional_keys) ==
  IF ~IsDict(h, schema_data) THEN Err(h, "TypeError")
  ELSE IF delete_type /\ ~Has(h, schema_data.n, "type") THEN Err(h, "KeyError")
  ELSE
    The({Ok(h2, [tree |-> delete_useless_keys(h2, schema_data, MaxSnap)]) :
         h2 \in {delete_keys(IF delete_type THEN DelKey(h, schema_data.n, "type") ELSE h,
                             schema_data.n, additional_keys, 1)}})

\* additional_keys of __parse_parameters
additional_keys == <<"pattern", "format", "maxLength">>

\* a or b
PyOr(h, a, b) == IF Truthy(h, a) THEN a ELSE b

\* param_schema.get(key), where param_schema = param.get("schema", {})
project_schema_get(h, param, key) ==
  IF Has(h, param.n, "schema") THEN Get(h, Get(h, param.n, "schema").n, key) ELSE None

\* The loop over additional_keys: the value on the parameter, else schema.get("key").
project_additional(h, param, akey) ==
  LET value == Get(h, param.n, akey) IN
  IF IsNone(value) /\ IsDict(h, Get(h, param.n, "schema"))
    THEN Get(h, Get(h, param.n, "schema").n, "key")
    ELSE value

\* Project __parse_parameters, lines 246-262: the record.
project_parameter_record(h, param, param_type, schema_obj, items, additional_result) ==
  IF ~IsStr(Get(h, param.n, "name")) \/ ~IsStr(Get(h, param.n, "in"))
     \/ ~IsStrOrDict(h, param_type)
    THEN Err(h, "ValidationError")
  ELSE Ok(h, [name |-> Get(h, param.n, "name"),
              location |-> Get(h, param.n, "in"),
              type |-> param_type,
              items |-> items,
              schema_obj |-> IF "tree" \in DOMAIN schema_obj /\ schema_obj.tree # [d |-> <<>>]
                               THEN schema_obj ELSE None,
              required |-> GetOrFalse(h, param.n, "required"),
              pattern |-> additional_result.pattern,
              format |-> additional_result.format,
              max_len |-> additional_result.maxLength])

\* Project __parse_parameters, lines 239-244: the item descriptor of an array.
project_parameter_items(h, param, param_type, schema_obj, additional_result) ==
  IF param_type # Str("array")
    THEN project_parameter_record(h, param, param_type, schema_obj, None, additional_result)
  ELSE IF ~Truthy(h, Get(h, param.n, "items")) /\ Has(h, param.n, "schema")
          /\ ~IsDict(h, Get(h, param.n, "schema"))
    THEN Err(h, "AttributeError")
  ELSE
    LET array_items == PyOr(h, Get(h, param.n, "items"), project_schema_get(h, param, "items")) IN
    IF ~IsNode(array_items) THEN Err(h, "TypeError")
    ELSE IF IsList(h, array_items) THEN Err(h, "TypeError")
    ELSE IF ~Has(h, array_items.n, "type") THEN Err(h, "KeyError")
    ELSE IF Get(h, array_items.n, "type") = Str("object") THEN
      The({IF prepared.e # "" THEN prepared
           ELSE project_parameter_record(prepared.h, param, param_type, schema_obj, prepared.r,
                                         additional_result) :
           prepared \in {prepare_schema(h, array_items, FALSE, <<>>)}})
    ELSE project_parameter_record(h, param, param_type, schema_obj, array_items, additional_result)

\* Project __parse_parameters, lines 224-237: one parameter.
project_parameter(h, param) ==
  IF ~IsDict(h, param) THEN Err(h, "AttributeError")
  ELSE IF ~Truthy(h, Get(h, param.n, "type")) /\ Has(h, param.n, "schema")
          /\ ~IsDict(h, Get(h, param.n, "schema"))
    THEN Err(h, "AttributeError")
  ELSE
    LET param_type == PyOr(h, Get(h, param.n, "type"), project_schema_get(h, param, "type"))
        additional_result == [pattern |-> project_additional(h, param, "pattern"),
                              format |-> project_additional(h, param, "format"),
                              maxLength |-> project_additional(h, param, "maxLength")]
    IN IF Truthy(h, Get(h, param.n, "schema")) /\ param_type # Str("array") THEN
         The({IF prepared.e # "" THEN prepared
              ELSE project_parameter_items(prepared.h, param, param_type, prepared.r,
                                           additional_result) :
              prepared \in {prepare_schema(h, Get(h, param.n, "schema"), TRUE, additional_keys)}})
       ELSE project_parameter_items(h, param, param_type, None, additional_result)

\* Project __parse_parameters: the loop over params_data from position i on.
\* When an exception leaves the loop, r is parsed_params as it was then.
RECURSIVE project_parse_parameters(_, _, _, _)
project_parse_parameters(h, params_data, i, parsed_params) ==
  IF ~IsList(h, params_data) THEN [h |-> h, r |-> parsed_params, e |-> "AttributeError"]
  ELSE IF i > Len(h[params_data.n].l) THEN Ok(h, parsed_params)
  ELSE The({IF one.e # "" THEN [one EXCEPT !.r = parsed_params]
            ELSE project_parse_parameters(one.h, params_data, i + 1, Append(parsed_params, one.r)) :
            one \in {project_parameter(h, h[params_data.n].l[i])}})

\* Project __parse_method, lines 206-218: the Method.
project_method_record(method, method_url, params) ==
  IF params.e # "" THEN Raised(params.h, params.e, Built(params.r))
  ELSE IF method \notin Operation THEN Raised(params.h, "KeyError", Built(params.r))
  ELSE Ok(params.h,
          [url |-> method_url,
           type |-> method,
           parameters |-> IF IsNone(params.r) \/ Len(params.r.list) <= 0
                            THEN None ELSE params.r,
           responses |-> None,
           request_body |-> None])

\* Project __parse_method: responses and request body are not parsed.
project_parse_method(h, method, method_data, method_url) ==
  IF ~IsDict(h, method_data) THEN Raised(h, "AttributeError", 0)
  ELSE IF is_deprecated(h, method_data) THEN Ok(h, None)
  ELSE project_method_record(method, method_url,
         IF ~IsNone(Get(h, method_data.n, "parameters"))
           THEN InList(project_parse_parameters(h, Get(h, method_data.n, "parameters"), 1, <<>>))
           ELSE Ok(h, None))

(***************************************************************************)
(* Reading trees: the document as it was given, and what was printed.      *)
(***************************************************************************)
\* The value of key in a dict tree, None when absent or when t is no dict.
TGet(t, key) ==
  IF "d" \in DOMAIN t /\ \E i \in DOMAIN t.d : t.d[i][1] = key
  THEN t.d[CHOOSE i \in DOMAIN t.d : t.d[i][1] = key][2]
  ELSE None

THas(t, key) == "d" \in DOMAIN t /\ \E i \in DOMAIN t.d : t.d[i][1] = key

\* Python truthiness of a tree.
TTruthy(t) ==
  IF "d" \in DOMAIN t THEN t.d # <<>>
  ELSE IF "l" \in DOMAIN t THEN t.l # <<>>
  ELSE IF IsBool(t) THEN t.b
  ELSE IF "i" \in DOMAIN t THEN t.i # 0
  ELSE IF IsStr(t) THEN t.s # <<"">>
  ELSE FALSE

\* key occurs as a key of some dict of the tree, at any depth.
RECURSIVE HasKeyDeep(_, _)
HasKeyDeep(t, key) ==
  \/ THas(t, key)
  \/ \E i \in DOMAIN Kids(t) : HasKeyDeep(Kids(t)[i][2], key)

\* The strings held under key anywhere in the tree.
RECURSIVE ValuesDeep(_, _)
ValuesDeep(t, key) ==
  (IF THas(t, key) /\ IsStr(TGet(t, key)) THEN {TGet(t, key)} ELSE {})
  \cup UNION {ValuesDeep(Kids(t)[i][2], key) : i \in DOMAIN Kids(t)}

\* The schema container of a document and the schemas a pointer can name.
SchemasOf(doc) ==
  IF THas(doc, "definitions") THEN TGet(doc, "definitions")
  ELSE TGet(TGet(doc, "components"), "schemas")

\* name -> the names its schema points to
PointsTo(doc, name) ==
  {ptr.s[Len(ptr.s)] : ptr \in ValuesDeep(TGet(SchemasOf(doc), name), "$ref")}

RECURSIVE Reach(_, _, _)
Reach(doc, names, n) ==
  IF n = 0 THEN names
  ELSE Reach(doc, names \cup UNION {PointsTo(doc, x) : x \in names}, n - 1)

\* No pointer of the document is reachable from itself.
Acyclic(doc) ==
  \A name \in SchemaNames :
    name \notin Reach(doc, PointsTo(doc, name), Cardinality(SchemaNames))

(***************************************************************************)
(* ResolvingParser(spec_string=...).specification, called by the project   *)
(* parse_swagger: the document with every {"$ref": pointer} object         *)
(* replaced by a copy of the pointer's target, itself resolved; a pointer  *)
(* without target, or one that reaches itself, raises.  The validation of  *)
(* the specification by the backend is not modelled.                       *)
(***************************************************************************)
RECURSIVE HasPath(_, _)
HasPath(t, path) ==
  \/ path = <<>>
  \/ /\ \E j \in DOMAIN Kids(t) : Kids(t)[j][1] = Head(path)
     /\ HasPath(Kids(t)[CHOOSE j \in DOMAIN Kids(t) : Kids(t)[j][1] = Head(path)][2], Tail(path))

RECURSIVE resolving_parser(_, _, _)
resolving_parser(doc, t, limit) ==
  IF THas(t, "$ref") /\ IsStr(TGet(t, "$ref")) THEN
    LET path == Tail(TGet(t, "$ref").s) IN
    IF limit = 0 \/ ~HasPath(doc, path) THEN [ok |-> FALSE, t |-> t]
    ELSE resolving_parser(doc, TreeAt(doc, path), limit - 1)
  ELSE IF "d" \in DOMAIN t THEN
    LET kids == [i \in DOMAIN t.d |-> resolving_parser(doc, t.d[i][2], limit)] IN
    [ok |-> \A i \in DOMAIN kids : kids[i].ok,
     t |-> [d |-> [i \in DOMAIN t.d |-> <<t.d[i][1], kids[i].t>>]]]
  ELSE IF "l" \in DOMAIN t THEN
    LET kids == [i \in DOMAIN t.l |-> resolving_parser(doc, t.l[i], limit)] IN
    [ok |-> \A i \in DOMAIN kids : kids[i].ok, t |-> [l |-> [i \in DOMAIN t.l |-> kids[i].t]]]
  ELSE [ok |-> TRUE, t |-> t]

(***************************************************************************)
(* What is printed for a Method: the values its records hold at that       *)
(* moment, read out of the document.                                       *)
(***************************************************************************)
Shown(h, v) == IF "tree" \in DOMAIN v THEN v.tree ELSE Snapshot(h, v, MaxSnap)

ShownItem(h, item) ==
  IF "enum_items" \in DOMAIN item
  THEN [d |-> << <<"type", Shown(h, item.type)>>, <<"enum_items", Shown(h, item.enum_items)>>,
                 <<"default", Shown(h, item.default)>> >>]
  ELSE Shown(h, item)

ShownParameter(h, q) ==
  [name |-> q.name, location |-> q.location, type |-> Shown(h, q.type),
   items |-> ShownItem(h, q.items), schema_obj |-> Shown(h, q.schema_obj),
   required |-> q.required, pattern |-> q.pattern, format |-> q.format, max_len |-> q.max_len]

ShownResponse(h, q) ==
  [code |-> q.code,
   return_schema |-> [type |-> Shown(h, q.return_schema.type),
                      items |-> Shown(h, q.return_schema.items)]]

ShownParameters(h, l) ==
  IF IsNone(l) THEN None ELSE Listed([i \in DOMAIN l.list |-> ShownParameter(h, l.list[i])])

ShownResponses(h, l) ==
  IF IsNone(l) THEN None ELSE Listed([i \in DOMAIN l.list |-> ShownResponse(h, l.list[i])])

ShownMethod(h, m, src) ==
  [src |-> src, url |-> m.url, type |-> m.type,
   parameters |-> ShownParameters(h, m.parameters),
   responses |-> ShownResponses(h, m.responses),
   request_body |-> IF IsNone(m.request_body) THEN None
                    ELSE [data_schema |-> Shown(h, m.request_body.data_schema),
                          required |-> m.request_body.required]]

(***************************************************************************)
(* The walk of __parse_endpoints: the (path, verb) pairs in the order of   *)
(* the two nested loops.  A path item that is no dict has no .items().     *)
(***************************************************************************)
RECURSIVE Walk(_, _, _)
Walk(h, endpoints_data, i) ==
  IF i > Len(h[endpoints_data.n].d) THEN <<>>
  ELSE
    LET endpoint_url == h[endpoints_data.n].d[i].k
        methods == h[endpoints_data.n].d[i].v
    IN (IF IsDict(h, methods)
        THEN [j \in DOMAIN h[methods.n].d |->
                [url |-> endpoint_url, method |-> h[methods.n].d[j].k,
                 data |-> h[methods.n].d[j].v, bad |-> FALSE]]
        ELSE <<[url |-> endpoint_url, method |-> "", data |-> None, bad |-> TRUE]>>)
       \o Walk(h, endpoints_data, i + 1)

(***************************************************************************)
(* State.                                                                  *)
(*   variant   which parser runs: "core" or "project"                      *)
(*   input     the decoded document as fetched                             *)
(*   doc0      the Document the walk works on, as it was handed over: the  *)
(*             input (core), the resolved specification (project)          *)
(*   heap      the objects of that Document                                *)
(*   calls, lastPtr, lastRes, prevRes                                      *)
(*             the direct resolver calls: how many, the pointer of the     *)
(*             last one, what it returned (as read at its return), and     *)
(*             what the call before returned when it had the same pointer  *)
(*   status    "idle", "running", "done" (parse_swagger returned),         *)
(*             "failed" (an exception left it), "hung"                     *)
(*   err       the exception                                               *)
(*   pos       position of the walk                                        *)
(*   outcome   per operation walked: "method", "skipped" or "error", and   *)
(*             the number of Parameter records built for it                *)
(*   printed   the Methods handed to _print_colorfull_method, in order     *)
(*   searched  the direct call of __find_key_in_dict: the key, the data    *)
(*             searched and the value returned, as read at its return      *)
(***************************************************************************)
VARIABLES variant, input, doc0, heap, calls, lastPtr, lastRes, prevRes,
          status, err, pos, outcome, printed, searched

vars == <<variant, input, doc0, heap, calls, lastPtr, lastRes, prevRes,
          status, err, pos, outcome, printed, searched>>

NoRes == [e |-> "none", val |-> None]
NoSearch == [key |-> "", data |-> None, found |-> None, hang |-> FALSE]

Init ==
  /\ variant \in {"core", "project"}
  /\ input \in Documents
  /\ doc0 = input
  /\ heap = Load(input)
  /\ calls = 0
  /\ lastPtr = None
  /\ lastRes = NoRes
  /\ prevRes = NoRes
  /\ status = "idle"
  /\ err = ""
  /\ pos = 0
  /\ outcome = <<>>
  /\ printed = <<>>
  /\ searched = NoSearch

\* A normalizer resolves pointer p: one call of __parse_ref on the document.
ParseRef(p) ==
  /\ variant = "core"
  /\ status = "idle"
  /\ calls < MaxCalls
  /\ \E r \in {parse_ref(heap, p, MaxDepth)} :
       /\ heap' = r.h
       /\ lastRes' = [e |-> r.e, val |-> Snapshot(r.h, r.r, MaxSnap)]
  /\ prevRes' = IF lastPtr = p THEN lastRes ELSE NoRes
  /\ lastPtr' = p
  /\ calls' = calls + 1
  /\ UNCHANGED <<variant, input, doc0, status, err, pos, outcome, printed, searched>>

\* What parse_swagger and __parse_endpoints do with the 'paths' of Document h.
Entered(h) ==
  IF IsNone(Get(h, Root, "paths")) THEN [status |-> "failed", err |-> "AssertionError"]
  ELSE IF ~IsDict(h, Get(h, Root, "paths")) THEN [status |-> "failed", err |-> "AttributeError"]
  ELSE IF Walk(h, Get(h, Root, "paths"), 1) = <<>> THEN [status |-> "done", err |-> ""]
  ELSE [status |-> "running", err |-> ""]

\* parse_swagger up to the first operation: the Document and its 'paths'.
ParseSwagger ==
  /\ status = "idle"
  /\ calls = 0
  /\ \E spec \in {IF variant = "project" THEN resolving_parser(input, input, MaxDepth)
                  ELSE [ok |-> TRUE, t |-> input]} :
       IF ~spec.ok
       THEN /\ status' = "failed"
            /\ err' = "ResolutionError"
            /\ UNCHANGED <<doc0, heap>>
       ELSE /\ doc0' = spec.t
            /\ heap' = Load(spec.t)
            /\ \E entered \in {Entered(Load(spec.t))} :
                 /\ status' = entered.status
                 /\ err' = entered.err
  /\ pos' = 1
  /\ UNCHANGED <<variant, input, calls, lastPtr, lastRes, prevRes, outcome, printed, searched>>

\* __parse_method for operation op of the walk.
ParseMethod(op) ==
  IF op.bad THEN Raised(heap, "AttributeError", 0)
  ELSE IF variant = "core" THEN core_parse_method(heap, op.method, op.data, op.url)
  ELSE project_parse_method(heap, op.method, op.data, op.url)

\* The body of the loops of __parse_endpoints for the operation at pos.
ParseEndpoints ==
  /\ status = "running"
  /\ \E ops \in {Walk(heap, Get(heap, Root, "paths"), 1)} :
     \E r \in {ParseMethod(ops[pos])} :
        /\ heap' = r.h
        /\ IF r.e # "" THEN
             /\ status' = IF r.e = "Hang" THEN "hung" ELSE "failed"
             /\ err' = r.e
             /\ outcome' = Append(outcome, [kind |-> "error", built |-> r.r.built])
             /\ UNCHANGED <<printed, pos>>
           ELSE
             /\ status' = IF pos = Len(ops) THEN "done" ELSE "running"
             /\ pos' = pos + 1
             /\ err' = ""
             /\ IF IsNone(r.r)
                THEN /\ outcome' = Append(outcome, [kind |-> "skipped", built |-> 0])
                     /\ UNCHANGED printed
                ELSE /\ outcome' = Append(outcome,
                                     [kind |-> "method",
                                      built |-> IF IsNone(r.r.parameters) THEN 0
                                                ELSE Len(r.r.parameters.list)])
                     /\ printed' = Append(printed, ShownMethod(r.h, r.r, pos))
  /\ UNCHANGED <<variant, input, doc0, calls, lastPtr, lastRes, prevRes, searched>>

\* What the normalizers search: the request body of an operation and the
\* entries of its responses (request_body_data, response_data).
SearchedData(h, method_data) ==
  IF ~IsDict(h, method_data) THEN {}
  ELSE (IF IsNode(Get(h, method_data.n, "requestBody"))
          THEN {Get(h, method_data.n, "requestBody")} ELSE {})
       \cup (IF IsDict(h, Get(h, method_data.n, "responses"))
               THEN {h[Get(h, method_data.n, "responses").n].d[i].v :
                       i \in DOMAIN h[Get(h, method_data.n, "responses").n].d}
               ELSE {})

\* The keys the normalizers search for.
SearchedKeys == {"$ref", "type"}

\* One call of __find_key_in_dict on data of the Document, once the walk has
\* ended; the search changes nothing.
FindKey(data_dict, target_key) ==
  /\ variant = "core"
  /\ status \in {"done", "failed"}
  /\ searched = NoSearch
  /\ \E r \in {find_key_in_dict(heap, data_dict, target_key)} :
       searched' = [key |-> target_key,
                    data |-> Snapshot(heap, data_dict, MaxSnap),
                    found |-> Snapshot(heap, r.found, MaxSnap),
                    hang |-> r.hang]
  /\ UNCHANGED <<variant, input, doc0, heap, calls, lastPtr, lastRes, prevRes,
                 status, err, pos, outcome, printed>>

Next ==
  \/ \E st \in Styles, n \in PointerNames : ParseRef(Pointer(st, n))
  \/ ParseSwagger
  \/ ParseEndpoints
  \/ \E j \in DOMAIN outcome :
       \E data_dict \in SearchedData(heap, Walk(heap, Get(heap, Root, "paths"), 1)[j].data) :
         \E target_key \in SearchedKeys : FindKey(data_dict, target_key)

Spec == Init /\ [][Next]_vars

(***************************************************************************)
(* The operations of a document, read from its tree in the order of the    *)
(* walk.                                                                   *)
(***************************************************************************)
RECURSIVE TWalk(_, _)
TWalk(paths, i) ==
  IF ~("d" \in DOMAIN paths) \/ i > Len(paths.d) THEN <<>>
  ELSE
    LET methods == paths.d[i][2] IN
    (IF "d" \in DOMAIN methods
     THEN [j \in DOMAIN methods.d |->
             [url |-> paths.d[i][1], method |-> methods.d[j][1], data |-> methods.d[j][2]]]
     ELSE <<[url |-> paths.d[i][1], method |-> "", data |-> None]>>)
    \o TWalk(paths, i + 1)

\* The operations of the Document, and of the document as fetched.
SourceOps == TWalk(TGet(doc0, "paths"), 1)
InputOps == TWalk(TGet(input, "paths"), 1)

Deprecated(op) == TTruthy(TGet(op.data, "deprecated"))

HasMethod(j) == \E i \in DOMAIN printed : printed[i].src = j

(***************************************************************************)
(* C1. For an acyclic document, the schema a resolver call returns holds   *)
(* no '$ref' key at any depth.                                             *)
(***************************************************************************)
C1_ResolvedHasNoPointer ==
  (Acyclic(input) /\ lastRes.e = "") => ~HasKeyDeep(lastRes.val, "$ref")

(***************************************************************************)
(* C2. No schema embedded in the output holds a denylisted key at any      *)
(* depth: neither a schema returned by the resolver, nor a schema_obj or   *)
(* an object item descriptor that went through __prepare_schema.           *)
(***************************************************************************)
NoUselessKey(t) == \A i \in DOMAIN schema_useless_keys : ~HasKeyDeep(t, schema_useless_keys[i])

\* The Parameter records of a printed Method.
ParamsShown(m) == IF IsNone(m.parameters) THEN <<>> ELSE m.parameters.list
ResponsesShown(m) == IF IsNone(m.responses) THEN <<>> ELSE m.responses.list

C2_NoDenylistedKeyAnywhere ==
  /\ lastRes.e = "" => NoUselessKey(lastRes.val)
  /\ \A i \in DOMAIN printed :
       /\ \A k \in DOMAIN ParamsShown(printed[i]) :
            LET q == ParamsShown(printed[i])[k] IN
            /\ NoUselessKey(q.schema_obj)
            /\ (variant = "project" /\ TGet(q.items, "type") = Str("object"))
                 => NoUselessKey(q.items)
       /\ ~IsNone(printed[i].request_body)
            => NoUselessKey(printed[i].request_body.data_schema)

(***************************************************************************)
(* C3. The Document is read-only during a parse: whatever resolutions and  *)
(* sanitizations have run, it reads as it did when it was handed over.     *)
(***************************************************************************)
C3_DocumentUnchanged == Snapshot(heap, Node(Root), MaxSnap) = doc0

(***************************************************************************)
(* C4. Two resolver calls in a row with the same pointer, both returning   *)
(* normally, return structurally equal schemas.                            *)
(***************************************************************************)
C4_SecondResolutionEqualsFirst ==
  (prevRes.e = "" /\ lastRes.e = "") => lastRes.val = prevRes.val

(***************************************************************************)
(* C5. A Method is produced for an operation iff the operation is not      *)
(* deprecated: no printed Method comes from a deprecated operation, a      *)
(* deprecated operation is skipped without an error, and when the parse    *)
(* completes every operation that is not deprecated has its Method.        *)
(***************************************************************************)
C5_MethodIffNotDeprecated ==
  /\ \A i \in DOMAIN printed : ~Deprecated(SourceOps[printed[i].src])
  /\ \A j \in DOMAIN outcome :
       /\ Deprecated(SourceOps[j]) => outcome[j].kind = "skipped"
       /\ outcome[j].kind = "method" <=> HasMethod(j)
  /\ status = "done" =>
       \A j \in DOMAIN SourceOps : ~Deprecated(SourceOps[j]) => HasMethod(j)

\* A parse that completed, skipped a deprecated operation and printed a Method.
C5_Witness ==
  /\ status = "done"
  /\ printed # <<>>
  /\ \E j \in DOMAIN outcome : Deprecated(SourceOps[j]) /\ outcome[j].kind = "skipped"

(***************************************************************************)
(* C6. When 'paths' is missing or is the empty mapping, parse_swagger      *)
(* fails: it does not complete, and nothing is printed.                    *)
(***************************************************************************)
PathsMissingOrEmpty == ~THas(input, "paths") \/ TGet(input, "paths") = Obj(<<>>)

C6_NoPathsIsFatal ==
  PathsMissingOrEmpty => (status \in {"idle", "failed"} /\ printed = <<>>)

(***************************************************************************)
(* C7. A parse is all-or-nothing: when a failed assertion (a request body   *)
(* without pointer, an array parameter without items) has left it, no      *)
(* Method of that parse has been delivered, those of the operations walked *)
(* before the failing one included.                                        *)
(***************************************************************************)
C7_AllOrNothing ==
  (status = "failed" /\ err = "AssertionError") => printed = <<>>

(***************************************************************************)
(* C8. In every Method, parameters and responses are absent or non-empty.  *)
(***************************************************************************)
C8_AbsentNotEmpty ==
  \A i \in DOMAIN printed :
    /\ IsNone(printed[i].parameters) \/ printed[i].parameters.list # <<>>
    /\ IsNone(printed[i].responses) \/ printed[i].responses.list # <<>>

(***************************************************************************)
(* C9. Core variant: an operation that is not deprecated and declares a    *)
(* request body without any '$ref' key in its subtree gets no Method, and  *)
(* walking it fails the parse.                                             *)
(***************************************************************************)
BodyWithoutPointer(op) ==
  /\ ~Deprecated(op)
  /\ ~IsNone(TGet(op.data, "requestBody"))
  /\ ~HasKeyDeep(TGet(op.data, "requestBody"), "$ref")

C9_BodyWithoutPointerIsFatal ==
  variant = "core" =>
    \A j \in DOMAIN SourceOps :
      BodyWithoutPointer(SourceOps[j]) =>
        /\ ~HasMethod(j)
        /\ j \in DOMAIN outcome => (outcome[j].kind = "error" /\ status = "failed")

\* The core walk has reached an operation whose request body has no pointer.
C9_Witness ==
  /\ variant = "core"
  /\ \E j \in DOMAIN outcome : BodyWithoutPointer(SourceOps[j]) /\ outcome[j].kind = "error"

(***************************************************************************)
(* C10. For a parameter whose effective type is 'array' the item           *)
(* descriptor is the inline 'items' or else 'schema.items'; without one    *)
(* the parameter fails and gets no Parameter record; with one that has no  *)
(* 'type' but a pointer, the pointer is resolved and the record is built.  *)
(***************************************************************************)
ParamsOf(op) ==
  IF "l" \in DOMAIN TGet(op.data, "parameters") THEN TGet(op.data, "parameters").l ELSE <<>>

EffectiveType(q) ==
  IF IsNone(TGet(q, "type")) THEN TGet(TGet(q, "schema"), "type") ELSE TGet(q, "type")

ItemDescriptor(q) ==
  IF IsNone(TGet(q, "items")) THEN TGet(TGet(q, "schema"), "items") ELSE TGet(q, "items")

\* ptr names a schema of an acyclic document.
Resolvable(ptr) == IsStr(ptr) /\ Acyclic(input) /\ HasPath(input, Tail(ptr.s))

\* The item descriptor of q has no 'type', and a pointer that can be resolved.
UntypedItems(q) ==
  /\ "d" \in DOMAIN ItemDescriptor(q)
  /\ IsNone(TGet(ItemDescriptor(q), "type"))
  /\ Resolvable(TGet(ItemDescriptor(q), "$ref"))

\* Parameter k of operation j was reached by the walk.
Reached(j, k) ==
  /\ j \in DOMAIN outcome
  /\ ~Deprecated(InputOps[j])
  /\ k <= outcome[j].built + 1

C10_ArrayItems ==
  \A j \in DOMAIN outcome : \A k \in DOMAIN ParamsOf(InputOps[j]) :
    LET q == ParamsOf(InputOps[j])[k] IN
    (Reached(j, k) /\ EffectiveType(q) = Str("array")) =>
      /\ IsNone(ItemDescriptor(q)) => (outcome[j].kind = "error" /\ outcome[j].built = k - 1)
      /\ UntypedItems(q) => k <= outcome[j].built

(***************************************************************************)
(* C11. __find_key_in_dict returns the value of the first occurrence of    *)
(* the target key in breadth-first order: the mappings of a level left to  *)
(* right, a level before the next one.                                     *)
(***************************************************************************)
\* The mappings and sequences held by the trees of a level, in order.
RECURSIVE NextLevel(_, _)
NextLevel(level, i) ==
  IF i > Len(level) THEN <<>>
  ELSE SelectSeq([j \in DOMAIN Kids(level[i]) |-> Kids(level[i])[j][2]], IsTree)
       \o NextLevel(level, i + 1)

\* The value of key in the first tree of the level that has it, level after level.
RECURSIVE FirstInBreadth(_, _, _)
FirstInBreadth(level, key, levels) ==
  IF level = <<>> \/ levels = 0 THEN None
  ELSE IF \E i \in DOMAIN level : THas(level[i], key)
    THEN TGet(level[CHOOSE i \in DOMAIN level :
                      /\ THas(level[i], key)
                      /\ \A j \in 1..(i - 1) : ~THas(level[j], key)], key)
  ELSE FirstInBreadth(NextLevel(level, 1), key, levels - 1)

C11_FirstOccurrenceInBreadth ==
  (searched.key # "" /\ ~searched.hang) =>
    searched.found = FirstInBreadth(<<searched.data>>, searched.key, MaxSnap)

(***************************************************************************)
(* C12. Each of the constraint fields pattern, format and maxLength of a   *)
(* Parameter is the value on the parameter object when present there,      *)
(* otherwise the value of the same key of its 'schema', otherwise absent.  *)
(***************************************************************************)
\* The value the precedence gives for key on parameter object q.
Constraint(q, key) ==
  IF ~IsNone(TGet(q, key)) THEN TGet(q, key) ELSE TGet(TGet(q, "schema"), key)

C12_ConstraintPrecedence ==
  \A i \in DOMAIN printed : \A k \in DOMAIN ParamsShown(printed[i]) :
    LET q == ParamsOf(SourceOps[printed[i].src])[k]
        shown == ParamsShown(printed[i])[k]
    IN /\ shown.pattern = Constraint(q, "pattern")
       /\ shown.format = Constraint(q, "format")
       /\ shown.max_len = Constraint(q, "maxLength")

(***************************************************************************)
(* C13. The first resolution of a pointer to a schema with 'properties':   *)
(* a property that holds a pointer is replaced by the resolved schema; an  *)
(* array-typed property whose 'items' holds a pointer stays as it was but  *)
(* for its 'items', which is replaced; every other property is left as it  *)
(* was.                                                                    *)
(***************************************************************************)
\* The schema the last pointer names in the document as fetched.
Named == TreeAt(input, Tail(lastPtr.s))

\* The first resolver call returned the schema of a pointer with 'properties'.
ResolvedProperties ==
  /\ calls = 1
  /\ lastRes.e = ""
  /\ Acyclic(input)
  /\ HasPath(input, Tail(lastPtr.s))
  /\ "d" \in DOMAIN TGet(Named, "properties")

HoldsPointer(t) == TTruthy(TGet(t, "$ref"))

\* Property v is array-typed and its 'items' holds a pointer.
ArrayOfPointer(v) ==
  ~HoldsPointer(v) /\ TGet(v, "type") = Str("array") /\ HoldsPointer(TGet(v, "items"))

\* The schema a pointer object names, as the Document holds it now.
Target(t) == Snapshot(heap, Node(Tail(TGet(t, "$ref").s)), MaxSnap)

\* Tree t without its entry for key.
Without(t, key) == SelectSeq(t.d, LAMBDA ent : ent[1] # key)

C13_PropertiesSubstitution ==
  ResolvedProperties =>
    \A i \in DOMAIN TGet(Named, "properties").d :
      LET k == TGet(Named, "properties").d[i][1]
          v == TGet(Named, "properties").d[i][2]
          now == TGet(TGet(lastRes.val, "properties"), k)
      IN IF HoldsPointer(v) THEN now = Target(v)
         ELSE IF ArrayOfPointer(v)
           THEN /\ "d" \in DOMAIN now
                /\ Without(now, "items") = Without(v, "items")
                /\ TGet(now, "items") = Target(TGet(v, "items"))
         ELSE now = v

(***************************************************************************)
(* C14. On a document whose pointer graph is acyclic every call of the     *)
(* resolver comes to an end, the calls on a document that earlier calls    *)
(* have substituted into included: the search of __find_key_in_dict        *)
(* empties its queue and the recursion of __parse_ref stops by itself.  A  *)
(* call that does not end is a call on a document with a pointer reachable *)
(* from itself.                                                            *)
(***************************************************************************)
\* How a call of the resolver that does not come to an end shows: the queue
\* of the search never empties, or the recursion uses every frame.
Endless == {"Hang", "RecursionError"}

C14_AcyclicResolutionEnds ==
  /\ (calls > 0 /\ lastRes.e \in Endless) => ~Acyclic(input)
  /\ (variant = "core" /\ err \in Endless) => ~Acyclic(input)

\* The second resolution of a pointer of an acyclic document, whose schema
\* points to other schemas, returns after the first has substituted in place.
C14_Witness ==
  /\ calls = 2
  /\ prevRes # NoRes
  /\ prevRes.e = ""
  /\ lastRes.e = ""
  /\ Acyclic(input)
  /\ HasPath(input, Tail(lastPtr.s))
  /\ PointsTo(input, lastPtr.s[Len(lastPtr.s)]) # {}
  /\ Snapshot(heap, Node(Root), MaxSnap) # doc0

====
